---- MODULE Spec2Model ----
(***************************************************************************)
(* A model of dbglab-slackbot's two service classes:                       *)
(*   app/services/openai_service.py  OpenAIService                         *)
(*   app/services/slack_service.py   SlackService                          *)
(*                                                                         *)
(* A Python str is a sequence of one-character strings (<<"h", "i">>);     *)
(* None is the one-element sequence <<"<None>">>, which is no string.      *)
(* An exception is a record [type, msg, resp]: msg is str(e) as a sequence *)
(* of text pieces (a literal of the source is one piece, an interpolated   *)
(* str contributes its characters), resp the response a SlackApiError      *)
(* carries.  A call's result is an outcome [kind, value, exc].             *)
(***************************************************************************)
EXTENDS Integers, Sequences, FiniteSets, TLC

VARIABLES
    openai_svc,   \* the OpenAIService instance the caller holds, or NoInstance
    slack_svc,    \* the SlackService instance the caller holds, or NoInstance
    op,           \* the operation in progress, "idle" when there is none
    phase,        \* "idle" | "awaiting" (blocked in the upstream call) | "done"
    args,         \* the arguments of the operation in progress
    sent,         \* the upstream requests the operation in progress has issued
    reply,        \* the upstream's answer to the operation in progress
    outcome,      \* what the operation in progress gave its caller
    client,       \* the upstream client object of the constructor in progress:
                  \* "none" (not asked for) | "created" | "raised"
    raw,          \* normalizer runs: the input string
    outs,         \* normalizer runs: the successive outputs of format_slack_message
    app,          \* the Flask application create_app returned, or NoApp
    calls,        \* concurrent runs: the invocation of each thread
    frames        \* concurrent runs: the local variables of each invocation

vars == <<openai_svc, slack_svc, op, phase, args, sent, reply, outcome, client,
          raw, outs, app, calls, frames>>

-----------------------------------------------------------------------------
(* Bounds of the model.                                                     *)

\* Pieces per input string of the normalizer runs.
MaxFrags == 4
\* Pieces per message argument of get_chat_completion.
MaxMsgFrags == 2
\* Pieces per input string of the step-by-step normalizer runs.
MaxStepFrags == 3

-----------------------------------------------------------------------------
(* Python str.                                                              *)

None == <<"<None>">>

\* The character U+0060 (a grave accent cannot be written in a string here).
Backtick == "BACKTICK"

\* str.isspace / the regex class \s, over the characters of the model.
Whitespace == {" ", "\t", "\n", "\r", "\f"}

\* The regex class [A-Z0-9].
UpperOrDigit ==
    {"A", "B", "C", "D", "E", "F", "G", "H", "I", "J", "K", "L", "M",
     "N", "O", "P", "Q", "R", "S", "T", "U", "V", "W", "X", "Y", "Z",
     "0", "1", "2", "3", "4", "5", "6", "7", "8", "9"}

Min(S) == CHOOSE m \in S : \A n \in S : m <= n

\* Python truthiness of an Optional[str]: None and "" are falsy.
Falsy(s) == s = None \/ s = <<>>

Slice(s, a, b) == [k \in 1..(b - a + 1) |-> s[a + k - 1]]

\* s[i:].startswith(lit)
HasAt(s, i, lit) ==
    /\ i + Len(lit) - 1 <= Len(s)
    /\ \A k \in 1..Len(lit) : s[i + k - 1] = lit[k]

\* The first index at or after i whose character is in stop, Len(s)+1 if none:
\* where a greedy [^...]+ started at i ends.
RunUntil(s, i, stop) ==
    LET J == {j \in i..Len(s) : s[j] \in stop}
    IN  IF J = {} THEN Len(s) + 1 ELSE Min(J)

\* The first index at or after i whose character is not in class, Len(s)+1 if
\* none: where a greedy [...]+ started at i ends.
RunIn(s, i, class) ==
    LET J == {j \in i..Len(s) : s[j] \notin class}
    IN  IF J = {} THEN Len(s) + 1 ELSE Min(J)

\* str.strip()
Strip(s) ==
    LET K == {k \in 1..Len(s) : s[k] \notin Whitespace}
    IN  IF K = {} THEN <<>>
        ELSE Slice(s, Min(K), CHOOSE m \in K : \A n \in K : n <= m)

-----------------------------------------------------------------------------
(* The regular expressions of format_slack_message.  A pattern is a record  *)
(* [kind, lit]; MatchEnd(p, s, i) is the index just past the match of p     *)
(* that starts at i, 0 when p does not match at i.  Every pattern here is   *)
(* a literal followed by greedy runs each ended by a character the run      *)
(* excludes, so backtracking into a shorter run never finds another match.  *)

\* <@U[A-Z0-9]+(?:\|[^>]+)?>  and  <#C[A-Z0-9]+(?:\|[^>]+)?>
TokenEnd(lit, s, i) ==
    IF ~HasAt(s, i, lit) THEN 0
    ELSE LET p == i + Len(lit)
             j == RunIn(s, p, UpperOrDigit)
         IN  IF j = p \/ j > Len(s) THEN 0
             ELSE IF s[j] = ">" THEN j + 1
             ELSE IF s[j] = "|"
                  THEN LET k == RunUntil(s, j + 1, {">"})
                       IN  IF k > j + 1 /\ k <= Len(s) THEN k + 1 ELSE 0
                  ELSE 0

\* https?://  after the opening <: the index just past the scheme, 0 if none.
SchemeEnd(s, i) ==
    IF HasAt(s, i, <<"<", "h", "t", "t", "p", "s", ":", "/", "/">>) THEN i + 9
    ELSE IF HasAt(s, i, <<"<", "h", "t", "t", "p", ":", "/", "/">>) THEN i + 8
    ELSE 0

\* The | of <(https?://[^|>]+)\|([^>]+)> matched at i, 0 if the url part fails.
LinkBar(s, i) ==
    LET p == SchemeEnd(s, i)
    IN  IF p = 0 THEN 0
        ELSE LET b == RunUntil(s, p, {"|", ">"})
             IN  IF b > p /\ b <= Len(s) /\ s[b] = "|" THEN b ELSE 0

\* <(https?://[^|>]+)\|([^>]+)>
LinkTextEnd(s, i) ==
    LET b == LinkBar(s, i)
    IN  IF b = 0 THEN 0
        ELSE LET k == RunUntil(s, b + 1, {">"})
             IN  IF k > b + 1 /\ k <= Len(s) THEN k + 1 ELSE 0

\* <(https?://[^>]+)>
LinkEnd(s, i) ==
    LET p == SchemeEnd(s, i)
    IN  IF p = 0 THEN 0
        ELSE LET k == RunUntil(s, p, {">"})
             IN  IF k > p /\ k <= Len(s) THEN k + 1 ELSE 0

\* A variant of EmphasisEnd for the greedy pattern \*(.+)\*, whose match
\* runs to the last marker of the text.
EmphasisEnd_greedy(m, s, i) ==
    IF s[i] # m THEN 0
    ELSE LET K == {k \in (i + 2)..Len(s) : s[k] = m}
         IN  IF K = {} THEN 0 ELSE (CHOOSE k \in K : \A n \in K : n <= k) + 1

\* \*([^*]+)\*  and the same with _ ` ~ : m is the marker.
EmphasisEnd(m, s, i) ==
    IF s[i] # m THEN 0
    ELSE LET k == RunUntil(s, i + 1, {m})
         IN  IF k > i + 1 /\ k <= Len(s) THEN k + 1 ELSE 0

\* A variant of SpaceEnd for the pattern \s, which takes the whitespace
\* characters one at a time.
SpaceEnd_single(s, i) == IF s[i] \in Whitespace THEN i + 1 ELSE 0

\* \s+
SpaceEnd(s, i) == IF s[i] \in Whitespace THEN RunIn(s, i, Whitespace) ELSE 0

MatchEnd(p, s, i) ==
    CASE p.kind = "token"    -> TokenEnd(p.lit, s, i)
      [] p.kind = "linktext" -> LinkTextEnd(s, i)
      [] p.kind = "link"     -> LinkEnd(s, i)
      [] p.kind = "emphasis" -> EmphasisEnd(p.lit[1], s, i)
      [] p.kind = "space"    -> SpaceEnd(s, i)

\* A variant of Replacement whose link with text is replaced by \1, its url.
Replacement_first_group(p, s, i, e) ==
    CASE p.kind = "token"    -> <<>>
      [] p.kind = "linktext" -> Slice(s, i + 1, LinkBar(s, i) - 1)
      [] p.kind = "link"     -> Slice(s, i + 1, e - 2)
      [] p.kind = "emphasis" -> Slice(s, i + 1, e - 2)
      [] p.kind = "space"    -> <<" ">>

\* The replacement of the match s[i..e-1] of p: '' for a token, \2 for a link
\* with text, \1 for a bare link and for emphasis, ' ' for whitespace.
Replacement(p, s, i, e) ==
    CASE p.kind = "token"    -> <<>>
      [] p.kind = "linktext" -> Slice(s, LinkBar(s, i) + 1, e - 2)
      [] p.kind = "link"     -> Slice(s, i + 1, e - 2)
      [] p.kind = "emphasis" -> Slice(s, i + 1, e - 2)
      [] p.kind = "space"    -> <<" ">>

\* re.sub(p, repl, s): the leftmost match is replaced and the scan resumes
\* just past it (matches do not overlap; none of the patterns matches empty).
RECURSIVE SubFrom(_, _, _)
SubFrom(p, s, i) ==
    IF i > Len(s) THEN <<>>
    ELSE LET e == MatchEnd(p, s, i)
         IN  IF e = 0 THEN <<s[i]>> \o SubFrom(p, s, i + 1)
             ELSE Replacement(p, s, i, e) \o SubFrom(p, s, e)

Sub(p, s) == SubFrom(p, s, 1)

UserMention    == [kind |-> "token", lit |-> <<"<", "@", "U">>]
ChannelMention == [kind |-> "token", lit |-> <<"<", "#", "C">>]
LinkWithText   == [kind |-> "linktext", lit |-> <<>>]
LinkBare       == [kind |-> "link", lit |-> <<>>]
Bold           == [kind |-> "emphasis", lit |-> <<"*">>]
Italic         == [kind |-> "emphasis", lit |-> <<"_">>]
Code           == [kind |-> "emphasis", lit |-> <<Backtick>>]
Strikethrough  == [kind |-> "emphasis", lit |-> <<"~">>]
Spaces         == [kind |-> "space", lit |-> <<>>]

\* The substitutions in the order the function applies them.
Pipeline ==
    <<UserMention, ChannelMention, LinkWithText, LinkBare,
      Bold, Italic, Code, Strikethrough, Spaces>>

RECURSIVE ApplyFrom(_, _, _)
ApplyFrom(rules, s, n) ==
    IF n > Len(rules) THEN s ELSE ApplyFrom(rules, Sub(rules[n], s), n + 1)

\* OpenAIService.format_slack_message
format_slack_message(message) ==
    IF Falsy(message) THEN <<>>
    ELSE Strip(ApplyFrom(Pipeline, message, 1))

-----------------------------------------------------------------------------
(* Input strings: concatenations of lexical pieces of Slack markup.         *)

Pieces ==
    { <<"<", "@", "U", "1">>,
      <<"<", "#", "C", "1">>,
      <<"<", "h", "t", "t", "p", "s", ":", "/", "/", "x">>,
      <<"<">>, <<">">>, <<"|">>,
      <<"a">>, <<"1">>,
      <<"*">>, <<"_">>, <<Backtick>>, <<"~">>,
      <<" ">>, <<"\n">> }

RECURSIVE Flatten(_)
Flatten(ps) == IF ps = <<>> THEN <<>> ELSE Head(ps) \o Flatten(Tail(ps))

\* The concatenations of at most n pieces of P.
StringsOver(P, n) == {Flatten(ps) : ps \in UNION {[1..k -> P] : k \in 0..n}}

Strings(n) == StringsOver(Pieces, n)

\* The pieces of the message arguments of get_chat_completion.
MessagePieces ==
    { <<"<", "@", "U", "1">>,
      <<"<", "#", "C", "1">>,
      <<"<", "h", "t", "t", "p", "s", ":", "/", "/", "x">>,
      <<">">>, <<"|">>, <<"a">>, <<"*">>, <<" ">>, <<"\n">> }

-----------------------------------------------------------------------------
(* Exceptions, outcomes and what the upstream clients can answer.           *)

\* A Slack response: "ok", and the optional keys (None: the key is absent).
SlackResponse(ok, error, user_id, team_id) ==
    [ok |-> ok, error |-> error, user_id |-> user_id, team_id |-> team_id]

NoResponse == SlackResponse(FALSE, None, None, None)

Exc(type, msg) == [type |-> type, msg |-> msg, resp |-> NoResponse]
NoExc == Exc("", <<>>)

\* SlackApiError(message, response)
SlackApiError(msg, resp) == [type |-> "SlackApiError", msg |-> msg, resp |-> resp]

Return(v) == [kind |-> "return", value |-> v, exc |-> NoExc]
Raise(e) == [kind |-> "raise", value |-> <<>>, exc |-> e]
NoOutcome == [kind |-> "none", value |-> <<>>, exc |-> NoExc]

\* The classes an except clause of the two services can name, with the
\* exception types each one catches (itself and its subclasses).
Catches(class) ==
    CASE class = "openai.AuthenticationError" -> {"openai.AuthenticationError"}
      [] class = "openai.RateLimitError"      -> {"openai.RateLimitError"}
      [] class = "openai.APIError" ->
            {"openai.APIError", "openai.AuthenticationError",
             "openai.RateLimitError", "openai.APIConnectionError"}
      [] class = "SlackApiError" -> {"SlackApiError"}
      [] class = "Exception" ->
            {"openai.APIError", "openai.AuthenticationError",
             "openai.RateLimitError", "openai.APIConnectionError",
             "openai.OpenAIError", "SlackApiError", "Exception",
             "ValueError", "RuntimeError", "KeyError", "AttributeError"}

IsInstance(e, class) == e.type \in Catches(class)

\* What an upstream call gives the handler that made it.
Answer(resp) == [kind |-> "return", resp |-> resp, exc |-> NoExc]
Failure(e) == [kind |-> "raise", resp |-> NoResponse, exc |-> e]

\* A completion response: its choices, each the content of the choice's
\* message (None when the message has no text).
Completion(choices) == [kind |-> "return", choices |-> choices, exc |-> NoExc]
CompletionFailure(e) == [kind |-> "raise", choices |-> <<>>, exc |-> e]

Detail == <<"upstream detail">>

Contents == { <<"h", "i">>, <<" ", "h", "i", "\n">>, <<" ">>, <<>>, None }

CompletionReplies ==
    {Completion(<<>>)}
    \cup {Completion(<<c>>) : c \in Contents}
    \cup {Completion(<<c, <<"n", "o">>>>) : c \in {<<" ", "h", "i", "\n">>, None}}
    \cup {CompletionFailure(Exc(t, Detail)) :
            t \in {"openai.AuthenticationError", "openai.RateLimitError",
                   "openai.APIError", "openai.APIConnectionError",
                   "openai.OpenAIError", "Exception"}}

\* OpenAI(api_key=...) and WebClient(token=...): the client is built, or the
\* constructor raises.
ClientFailures == {NoExc, Exc("Exception", Detail)}

PostCodes ==
    {<<"channel_not_found">>, <<"not_in_channel">>, <<"is_archived">>,
     <<"msg_too_long">>, <<"rate_limited">>, <<"invalid_auth">>,
     <<"thread_not_found">>, <<"some_other_error">>, <<"unknown">>, None}

PostReplies ==
    {Answer(SlackResponse(TRUE, None, None, None))}
    \cup {Answer(SlackResponse(FALSE, c, None, None)) :
            c \in {<<"some_error">>, <<"channel_not_found">>, None}}
    \cup {Failure(SlackApiError(Detail, SlackResponse(FALSE, c, None, None))) :
            c \in PostCodes}
    \cup {Failure(Exc("Exception", <<"Network error">>))}

AuthCodes ==
    {<<"invalid_auth">>, <<"account_inactive">>, <<"rate_limited">>,
     <<"some_other_error">>, None}

AuthReplies ==
    {Answer(SlackResponse(TRUE, None, <<"UBOT">>, <<"T1">>))}
    \cup {Answer(SlackResponse(FALSE, None, None, None))}
    \cup {Failure(SlackApiError(Detail, SlackResponse(FALSE, c, None, None))) :
            c \in AuthCodes}
    \cup {Failure(Exc("Exception", <<"Network error">>))}

-----------------------------------------------------------------------------
(* OpenAIService.                                                          *)

\* max_tokens of the validation request and of a completion request, and
\* the completion request's temperature in tenths (0.7).
ValidationMaxTokens == 1
CompletionMaxTokens == 1000
TemperatureTenths == 7

\* What a handler did before it blocks in (or returns without) an upstream
\* call: the requests it issued, its outcome if it has one already, and
\* what became of the upstream client object if it asked for one.
Done(o) == [sent |-> <<>>, outcome |-> o, client |-> "none"]
Blocked(request) == [sent |-> <<request>>, outcome |-> NoOutcome, client |-> "none"]
\* A constructor whose client object could not be created, and one that
\* created it and blocks in its validation request.
ClientRaised(o) == [sent |-> <<>>, outcome |-> o, client |-> "raised"]
Connected(request) == [sent |-> <<request>>, outcome |-> NoOutcome, client |-> "created"]

\* A variant of ValidationRequest that validates with the default model and
\* the response length of a completion.
ValidationRequest_full(model) ==
    [api |-> "chat.completions.create",
     model |-> <<"gpt-4">>,
     messages |-> << [role |-> "user", content |-> <<"t", "e", "s", "t">>] >>,
     max_tokens |-> CompletionMaxTokens]

\* client.chat.completions.create(...) of _validate_api_key
ValidationRequest(model) ==
    [api |-> "chat.completions.create",
     model |-> model,
     messages |-> << [role |-> "user", content |-> <<"t", "e", "s", "t">>] >>,
     max_tokens |-> ValidationMaxTokens]

\* A variant of CompletionRequest that ignores the configured model and
\* always asks for the default one.
CompletionRequest_default_model(model, content) ==
    [api |-> "chat.completions.create",
     model |-> <<"gpt-4">>,
     messages |-> << [role |-> "user", content |-> content] >>,
     max_tokens |-> CompletionMaxTokens,
     temperature |-> TemperatureTenths]

\* client.chat.completions.create(...) of get_chat_completion
CompletionRequest(model, content) ==
    [api |-> "chat.completions.create",
     model |-> model,
     messages |-> << [role |-> "user", content |-> content] >>,
     max_tokens |-> CompletionMaxTokens,
     temperature |-> TemperatureTenths]

\* A variant of OpenAIService_init that creates the client object before
\* it looks at the key.
OpenAIService_init_client_first(api_key, model, client_exc) ==
    IF client_exc # NoExc
    THEN ClientRaised(Raise(Exc("ValueError",
                        <<"Failed to initialize OpenAI client: ">> \o client_exc.msg)))
    ELSE IF Falsy(api_key)
    THEN [sent |-> <<>>,
          outcome |-> Raise(Exc("ValueError", <<"OpenAI API key cannot be empty or None">>)),
          client |-> "created"]
    ELSE Connected(ValidationRequest(model))

\* OpenAIService.__init__ up to the request of _validate_api_key.
OpenAIService_init(api_key, model, client_exc) ==
    IF Falsy(api_key)
    THEN Done(Raise(Exc("ValueError", <<"OpenAI API key cannot be empty or None">>)))
    ELSE IF client_exc # NoExc
    THEN ClientRaised(Raise(Exc("ValueError",
                        <<"Failed to initialize OpenAI client: ">> \o client_exc.msg)))
    ELSE Connected(ValidationRequest(model))

\* A variant of _validate_api_key for which a rate limit is a failure like
\* any other.
_validate_api_key_strict(upstream) ==
    IF upstream.kind = "return" THEN Return(<<>>)
    ELSE IF IsInstance(upstream.exc, "openai.AuthenticationError")
    THEN Raise(Exc("ValueError", <<"Invalid OpenAI API key">>))
    ELSE Raise(Exc("ValueError",
                   <<"OpenAI API key validation failed: ">> \o upstream.exc.msg))

\* OpenAIService._validate_api_key, from the upstream's answer on.
_validate_api_key(upstream) ==
    IF upstream.kind = "return" THEN Return(<<>>)
    ELSE IF IsInstance(upstream.exc, "openai.AuthenticationError")
    THEN Raise(Exc("ValueError", <<"Invalid OpenAI API key">>))
    ELSE IF IsInstance(upstream.exc, "openai.RateLimitError")
    THEN Return(<<>>)
    ELSE Raise(Exc("ValueError",
                   <<"OpenAI API key validation failed: ">> \o upstream.exc.msg))

\* A variant of OpenAIService_init_validated that lets the errors of
\* _validate_api_key through as they are.
OpenAIService_init_unwrapped(upstream) == _validate_api_key(upstream)

\* OpenAIService.__init__ from the return of _validate_api_key on.
OpenAIService_init_validated(upstream) ==
    LET v == _validate_api_key(upstream)
    IN  IF v.kind = "raise" /\ IsInstance(v.exc, "Exception")
        THEN Raise(Exc("ValueError",
                       <<"Failed to initialize OpenAI client: ">> \o v.exc.msg))
        ELSE v

\* A variant of get_chat_completion without the check after formatting.
get_chat_completion_unchecked(self, message) ==
    IF Falsy(message) \/ Strip(message) = <<>>
    THEN Done(Raise(Exc("ValueError", <<"Message cannot be empty or None">>)))
    ELSE Blocked(CompletionRequest(self.model, Strip(format_slack_message(message))))

\* OpenAIService.get_chat_completion up to its upstream request.
get_chat_completion(self, message) ==
    IF Falsy(message) \/ Strip(message) = <<>>
    THEN Done(Raise(Exc("ValueError", <<"Message cannot be empty or None">>)))
    ELSE LET formatted_message == format_slack_message(message)
         IN  IF Strip(formatted_message) = <<>>
             THEN Done(Raise(Exc("ValueError",
                                 <<"Message cannot be empty after formatting">>)))
             ELSE Blocked(CompletionRequest(self.model, Strip(formatted_message)))

\* A variant of ExtractResponse that takes the last choice, not the first.
ExtractResponse_last_choice(upstream) ==
    IF upstream.kind = "raise" THEN Raise(upstream.exc)
    ELSE IF upstream.choices # <<>> /\ Len(upstream.choices) > 0
    THEN IF upstream.choices[Len(upstream.choices)] = None
         THEN Raise(Exc("AttributeError",
                        <<"'NoneType' object has no attribute 'strip'">>))
         ELSE Return(Strip(upstream.choices[Len(upstream.choices)]))
    ELSE Raise(Exc("RuntimeError", <<"OpenAI API returned empty response">>))

\* The body of get_chat_completion's try statement after the request.
ExtractResponse(upstream) ==
    IF upstream.kind = "raise" THEN Raise(upstream.exc)
    ELSE IF upstream.choices # <<>> /\ Len(upstream.choices) > 0
    THEN IF upstream.choices[1] = None
         THEN Raise(Exc("AttributeError",
                        <<"'NoneType' object has no attribute 'strip'">>))
         ELSE Return(Strip(upstream.choices[1]))
    ELSE Raise(Exc("RuntimeError", <<"OpenAI API returned empty response">>))

\* A variant of CompletionHandlers whose except openai.APIError clause comes
\* first, before the clauses of its subclasses.
CompletionHandlers_general_first(e) ==
    IF IsInstance(e, "openai.APIError")
    THEN Raise(Exc("RuntimeError", <<"OpenAI API error: ">> \o e.msg))
    ELSE IF IsInstance(e, "openai.AuthenticationError")
    THEN Raise(Exc("RuntimeError", <<"OpenAI API authentication failed">>))
    ELSE IF IsInstance(e, "openai.RateLimitError")
    THEN Raise(Exc("RuntimeError",
                   <<"OpenAI API rate limit exceeded - please try again later">>))
    ELSE Raise(Exc("RuntimeError", <<"Failed to get OpenAI response: ">> \o e.msg))

\* The except clauses of get_chat_completion, in their order.
CompletionHandlers(e) ==
    IF IsInstance(e, "openai.AuthenticationError")
    THEN Raise(Exc("RuntimeError", <<"OpenAI API authentication failed">>))
    ELSE IF IsInstance(e, "openai.RateLimitError")
    THEN Raise(Exc("RuntimeError",
                   <<"OpenAI API rate limit exceeded - please try again later">>))
    ELSE IF IsInstance(e, "openai.APIError")
    THEN Raise(Exc("RuntimeError", <<"OpenAI API error: ">> \o e.msg))
    ELSE IF IsInstance(e, "Exception")
    THEN Raise(Exc("RuntimeError", <<"Failed to get OpenAI response: ">> \o e.msg))
    ELSE Raise(e)

\* OpenAIService.get_chat_completion from the upstream's answer on.
get_chat_completion_reply(upstream) ==
    LET r == ExtractResponse(upstream)
    IN  IF r.kind = "raise" THEN CompletionHandlers(r.exc) ELSE r

-----------------------------------------------------------------------------
(* SlackService.                                                           *)

\* bot_token.startswith('xoxb-'): the prefix is one piece of the token.
StartsWith(s, prefix) == HasAt(s, 1, prefix)

\* A variant of SlackService_init that accepts a token of any prefix.
SlackService_init_any_prefix(bot_token, client_exc) ==
    IF Falsy(bot_token)
    THEN Done(Raise(Exc("ValueError", <<"Slack bot token cannot be empty or None">>)))
    ELSE IF client_exc # NoExc
    THEN ClientRaised(Raise(Exc("RuntimeError",
                        <<"Failed to initialize Slack client: ">> \o client_exc.msg)))
    ELSE Connected([api |-> "auth.test"])

\* SlackService.__init__ up to the request of _validate_bot_token.
SlackService_init(bot_token, client_exc) ==
    IF Falsy(bot_token)
    THEN Done(Raise(Exc("ValueError", <<"Slack bot token cannot be empty or None">>)))
    ELSE IF ~StartsWith(bot_token, <<"xoxb-">>)
    THEN Done(Raise(Exc("ValueError",
                        <<"Invalid Slack bot token format - must start with 'xoxb-'">>)))
    ELSE IF client_exc # NoExc
    THEN ClientRaised(Raise(Exc("RuntimeError",
                        <<"Failed to initialize Slack client: ">> \o client_exc.msg)))
    ELSE Connected([api |-> "auth.test"])

\* The body of _validate_bot_token's try statement after auth_test().
AuthTestBody(upstream) ==
    IF upstream.kind = "raise" THEN Raise(upstream.exc)
    ELSE IF ~upstream.resp.ok
    THEN Raise(Exc("RuntimeError", <<"Slack auth test failed">>))
    ELSE Return(<<>>)

\* A variant of AuthTestHandlers that takes a rate limit as proof that the
\* token is live, as _validate_api_key does.
AuthTestHandlers_rate_limit_passes(e) ==
    IF IsInstance(e, "SlackApiError")
    THEN IF e.resp.error = None
         THEN Raise(Exc("KeyError", <<"'error'">>))
         ELSE IF e.resp.error = <<"invalid_auth">>
         THEN Raise(Exc("RuntimeError", <<"Invalid Slack bot token">>))
         ELSE IF e.resp.error = <<"account_inactive">>
         THEN Raise(Exc("RuntimeError", <<"Slack account is inactive">>))
         ELSE IF e.resp.error = <<"rate_limited">>
         THEN Return(<<>>)
         ELSE Raise(Exc("RuntimeError",
                        <<"Slack API error during validation: ">> \o e.resp.error))
    ELSE IF IsInstance(e, "Exception")
    THEN Raise(Exc("RuntimeError",
                   <<"Failed to validate Slack bot token: ">> \o e.msg))
    ELSE Raise(e)

\* e.response["error"] raises KeyError when the response has no such key; an
\* exception raised inside an except clause leaves the try statement.
AuthTestHandlers(e) ==
    IF IsInstance(e, "SlackApiError")
    THEN IF e.resp.error = None
         THEN Raise(Exc("KeyError", <<"'error'">>))
         ELSE IF e.resp.error = <<"invalid_auth">>
         THEN Raise(Exc("RuntimeError", <<"Invalid Slack bot token">>))
         ELSE IF e.resp.error = <<"account_inactive">>
         THEN Raise(Exc("RuntimeError", <<"Slack account is inactive">>))
         ELSE Raise(Exc("RuntimeError",
                        <<"Slack API error during validation: ">> \o e.resp.error))
    ELSE IF IsInstance(e, "Exception")
    THEN Raise(Exc("RuntimeError",
                   <<"Failed to validate Slack bot token: ">> \o e.msg))
    ELSE Raise(e)

\* SlackService._validate_bot_token, from the upstream's answer on.
_validate_bot_token(upstream) ==
    LET r == AuthTestBody(upstream)
    IN  IF r.kind = "raise" THEN AuthTestHandlers(r.exc) ELSE r

\* A variant of SlackService.__init__ without the try statement around the
\* validation: what _validate_bot_token raises reaches the caller as it is.
SlackService_init_unwrapped(upstream) == _validate_bot_token(upstream)

\* SlackService.__init__ from the return of _validate_bot_token on.
SlackService_init_validated(upstream) ==
    LET v == _validate_bot_token(upstream)
    IN  IF v.kind = "raise" /\ IsInstance(v.exc, "Exception")
        THEN Raise(Exc("RuntimeError",
                       <<"Failed to initialize Slack client: ">> \o v.exc.msg))
        ELSE v

\* A variant of SlackInstance that stores the team where the bot user
\* belongs and the bot user where the team belongs.
SlackInstance_swapped(bot_token, resp) ==
    [ok |-> TRUE, bot_token |-> bot_token,
     bot_user_id |-> resp.team_id, team_id |-> resp.user_id]

\* The instance a successful SlackService(bot_token) leaves.
SlackInstance(bot_token, resp) ==
    [ok |-> TRUE, bot_token |-> bot_token,
     bot_user_id |-> resp.user_id, team_id |-> resp.team_id]

\* A variant of MessageParams that always has a thread_ts entry.
MessageParams_always_thread(channel, text, thread_ts) ==
    [api |-> "chat.postMessage", channel |-> Strip(channel), text |-> Strip(text),
     thread_ts |-> thread_ts]

\* message_params of post_message
MessageParams(channel, text, thread_ts) ==
    IF Falsy(thread_ts)
    THEN [api |-> "chat.postMessage", channel |-> Strip(channel), text |-> Strip(text)]
    ELSE [api |-> "chat.postMessage", channel |-> Strip(channel), text |-> Strip(text),
          thread_ts |-> thread_ts]

\* A variant of post_message that checks the text before the channel.
post_message_text_first(channel, text, thread_ts) ==
    IF Falsy(text) \/ Strip(text) = <<>>
    THEN Done(Raise(Exc("ValueError", <<"Message text cannot be empty or None">>)))
    ELSE IF Falsy(channel) \/ Strip(channel) = <<>>
    THEN Done(Raise(Exc("ValueError", <<"Channel cannot be empty or None">>)))
    ELSE Blocked(MessageParams(channel, text, thread_ts))

\* SlackService.post_message up to its upstream request.
post_message(channel, text, thread_ts) ==
    IF Falsy(channel) \/ Strip(channel) = <<>>
    THEN Done(Raise(Exc("ValueError", <<"Channel cannot be empty or None">>)))
    ELSE IF Falsy(text) \/ Strip(text) = <<>>
    THEN Done(Raise(Exc("ValueError", <<"Message text cannot be empty or None">>)))
    ELSE Blocked(MessageParams(channel, text, thread_ts))

\* The body of post_message's try statement after chat_postMessage().
PostBody(upstream) ==
    IF upstream.kind = "raise" THEN Raise(upstream.exc)
    ELSE IF upstream.resp.ok THEN Return(<<"True">>)
    ELSE Raise(Exc("RuntimeError",
                   <<"Slack API returned error: ">>
                   \o (IF upstream.resp.error = None THEN <<"Unknown error">>
                       ELSE upstream.resp.error)))

\* error_code = e.response.get("error", "unknown")
ErrorCode(e) == IF e.resp.error = None THEN <<"unknown">> ELSE e.resp.error

\* A variant of PostErrorFor whose is_archived branch raises the error of
\* the channel_not_found branch.
PostErrorFor_archived_as_missing(error_code, channel) ==
    IF error_code \in {<<"channel_not_found">>, <<"is_archived">>}
    THEN Exc("RuntimeError", <<"Channel not found: ">> \o channel)
    ELSE IF error_code = <<"not_in_channel">>
    THEN Exc("RuntimeError", <<"Bot is not in channel: ">> \o channel)
    ELSE IF error_code = <<"msg_too_long">>
    THEN Exc("RuntimeError", <<"Message text is too long">>)
    ELSE IF error_code = <<"rate_limited">>
    THEN Exc("RuntimeError", <<"Rate limit exceeded - please try again later">>)
    ELSE IF error_code = <<"invalid_auth">>
    THEN Exc("RuntimeError", <<"Invalid authentication token">>)
    ELSE IF error_code = <<"thread_not_found">>
    THEN Exc("RuntimeError", <<"Thread not found for the provided thread_ts">>)
    ELSE Exc("RuntimeError", <<"Slack API error: ">> \o error_code)

\* The if/elif chain of post_message's except SlackApiError clause.
PostErrorFor(error_code, channel) ==
    IF error_code = <<"channel_not_found">>
    THEN Exc("RuntimeError", <<"Channel not found: ">> \o channel)
    ELSE IF error_code = <<"not_in_channel">>
    THEN Exc("RuntimeError", <<"Bot is not in channel: ">> \o channel)
    ELSE IF error_code = <<"is_archived">>
    THEN Exc("RuntimeError", <<"Channel is archived: ">> \o channel)
    ELSE IF error_code = <<"msg_too_long">>
    THEN Exc("RuntimeError", <<"Message text is too long">>)
    ELSE IF error_code = <<"rate_limited">>
    THEN Exc("RuntimeError", <<"Rate limit exceeded - please try again later">>)
    ELSE IF error_code = <<"invalid_auth">>
    THEN Exc("RuntimeError", <<"Invalid authentication token">>)
    ELSE IF error_code = <<"thread_not_found">>
    THEN Exc("RuntimeError", <<"Thread not found for the provided thread_ts">>)
    ELSE Exc("RuntimeError", <<"Slack API error: ">> \o error_code)

\* The except clauses of post_message, in their order.
PostHandlers(e, channel) ==
    IF IsInstance(e, "SlackApiError")
    THEN Raise(PostErrorFor(ErrorCode(e), channel))
    ELSE IF IsInstance(e, "Exception")
    THEN Raise(Exc("RuntimeError", <<"Failed to post message to Slack: ">> \o e.msg))
    ELSE Raise(e)

\* SlackService.post_message from the upstream's answer on.
post_message_reply(channel, upstream) ==
    LET r == PostBody(upstream)
    IN  IF r.kind = "raise" THEN PostHandlers(r.exc, channel) ELSE r

-----------------------------------------------------------------------------
(* The caller's arguments.                                                  *)

ApiKeys == {None, <<>>, <<"sk-key">>}
Models == {<<"gpt-4">>, <<"gpt-3.5-turbo">>}
BotTokens == {None, <<>>, <<"xoxb-", "1">>, <<"xoxp-", "1">>}
Messages == StringsOver(MessagePieces, MaxMsgFrags) \cup {None}
Channels == {None, <<>>, <<" ">>, <<"C", "1">>, <<" ", "C", "1", " ">>}
Texts == {None, <<>>, <<"\n">>, <<"h", "i">>, <<" ", "h", "i", " ">>}
ThreadRefs == {None, <<>>, <<"1", ".", "2">>}

-----------------------------------------------------------------------------
(* The services in use: one caller, one operation at a time.  An operation  *)
(* starts (the handler runs up to its upstream request, or fails before     *)
(* it), the upstream answers (the handler runs to its end), and the caller  *)
(* takes the outcome.                                                       *)

NoInstance == [ok |-> FALSE]

\* No application has been created.
NoApp == [routes |-> "none"]

\* The threads of a concurrent run, none of them in a call, and the local
\* variables of their invocations, none of them assigned.
Threads == {1, 2}
NoCall == [op |-> "idle", phase |-> "idle", args |-> <<>>, sent |-> <<>>,
           reply |-> [kind |-> "none"], outcome |-> NoOutcome]
NoCalls == [t \in Threads |-> NoCall]
NoFrames == [t \in Threads |-> [args |-> <<>>, requests |-> <<>>]]

NoReply == [kind |-> "none"]

serviceVars == <<openai_svc, slack_svc, op, phase, args, sent, reply, outcome, client,
                 app, calls, frames>>

ServiceIdle ==
    /\ openai_svc = NoInstance
    /\ slack_svc = NoInstance
    /\ op = "idle"
    /\ phase = "idle"
    /\ args = <<>>
    /\ sent = <<>>
    /\ reply = NoReply
    /\ outcome = NoOutcome
    /\ client = "none"
    /\ app = NoApp
    /\ calls = NoCalls
    /\ frames = NoFrames

Init ==
    /\ ServiceIdle
    /\ raw = <<>>
    /\ outs = <<>>

\* The operation name with arguments a starts and has come as far as r.
Start(name, a, r) ==
    /\ phase = "idle"
    /\ op' = name
    /\ args' = a
    /\ sent' = r.sent
    /\ outcome' = r.outcome
    /\ client' = r.client
    /\ phase' = IF r.outcome.kind = "none" THEN "awaiting" ELSE "done"
    /\ UNCHANGED <<openai_svc, slack_svc, reply, raw, outs, app, calls, frames>>

\* A variant of FurtherRequests that sends the request again when the
\* upstream limits the rate.
FurtherRequests_retry(requests, u) ==
    IF /\ u.kind = "raise"
       /\ \/ u.exc.type = "openai.RateLimitError"
          \/ u.exc.resp.error = <<"rate_limited">>
    THEN requests
    ELSE <<>>

\* The upstream calls a handler makes once its request is answered: none.
\* After the call each handler only reads the response or maps the
\* exception; no except clause calls the client again.
FurtherRequests(requests, u) == <<>>

\* The upstream answers u to operation name, which ends with outcome o.
Answered(name, u, o) ==
    /\ op = name
    /\ phase = "awaiting"
    /\ reply' = u
    /\ outcome' = o
    /\ phase' = "done"
    /\ sent' = sent \o FurtherRequests(sent, u)
    /\ UNCHANGED <<op, args, client, raw, outs, app, calls, frames>>

\* A variant of Bound in which the object under construction reaches the
\* caller even though its constructor raised.
Bound_partial(held, o, instance) == instance

\* svc = Service(...): the caller's name is bound to the new instance when
\* the constructor returns, and keeps what it held when it raises.
Bound(held, o, instance) == IF o.kind = "return" THEN instance ELSE held

NewOpenAIService ==
    /\ op = "idle"
    /\ \E api_key \in ApiKeys, model \in Models, client_exc \in ClientFailures :
        Start("OpenAIService", <<api_key, model>>,
              OpenAIService_init(api_key, model, client_exc))

OpenAIValidated ==
    /\ op = "OpenAIService"
    /\ \E u \in CompletionReplies :
        LET o == OpenAIService_init_validated(u)
        IN  /\ Answered("OpenAIService", u, o)
            /\ openai_svc' = Bound(openai_svc, o, [ok |-> TRUE, model |-> args[2]])
            /\ UNCHANGED slack_svc

GetChatCompletion ==
    /\ openai_svc.ok
    /\ \E message \in Messages :
        Start("get_chat_completion", <<message>>,
              get_chat_completion(openai_svc, message))

CompletionReplied ==
    /\ op = "get_chat_completion"
    /\ \E u \in CompletionReplies :
        /\ Answered("get_chat_completion", u, get_chat_completion_reply(u))
        /\ UNCHANGED <<openai_svc, slack_svc>>

NewSlackService ==
    /\ op = "idle"
    /\ \E bot_token \in BotTokens, client_exc \in ClientFailures :
        Start("SlackService", <<bot_token>>, SlackService_init(bot_token, client_exc))

SlackValidated ==
    /\ op = "SlackService"
    /\ \E u \in AuthReplies :
        LET o == SlackService_init_validated(u)
        IN  /\ Answered("SlackService", u, o)
            /\ slack_svc' = Bound(slack_svc, o, SlackInstance(args[1], u.resp))
            /\ UNCHANGED openai_svc

PostMessage ==
    /\ slack_svc.ok
    /\ \E channel \in Channels, text \in Texts, thread_ts \in ThreadRefs :
        Start("post_message", <<channel, text, thread_ts>>,
              post_message(channel, text, thread_ts))

PostReplied ==
    /\ op = "post_message"
    /\ \E u \in PostReplies :
        /\ Answered("post_message", u, post_message_reply(args[1], u))
        /\ UNCHANGED <<openai_svc, slack_svc>>

\* The caller takes the outcome; the next operation may start.
Finish ==
    /\ phase = "done"
    /\ op' = "idle"
    /\ phase' = "idle"
    /\ args' = <<>>
    /\ sent' = <<>>
    /\ reply' = NoReply
    /\ outcome' = NoOutcome
    /\ client' = "none"
    /\ UNCHANGED <<openai_svc, slack_svc, raw, outs, app, calls, frames>>

Next ==
    \/ NewOpenAIService
    \/ OpenAIValidated
    \/ GetChatCompletion
    \/ CompletionReplied
    \/ NewSlackService
    \/ SlackValidated
    \/ PostMessage
    \/ PostReplied
    \/ Finish

Spec == Init /\ [][Next]_vars

-----------------------------------------------------------------------------
(* Normalizer runs: an input string, then format_slack_message applied to   *)
(* it, then applied again to its own output.                                *)

NormInit ==
    /\ ServiceIdle
    /\ raw \in Strings(MaxFrags) \cup {None}
    /\ outs = <<>>

Format ==
    /\ Len(outs) < 2
    /\ outs' = Append(outs,
                      format_slack_message(IF outs = <<>> THEN raw ELSE outs[Len(outs)]))
    /\ UNCHANGED <<raw, serviceVars>>

NormNext == Format

SpecNorm == NormInit /\ [][NormNext]_vars

-----------------------------------------------------------------------------
(* Step-by-step normalizer runs: an input string, then the text after each  *)
(* statement of format_slack_message: outs[k] is the text after the k-th    *)
(* substitution of Pipeline, and the last entry is what the function        *)
(* returns.                                                                 *)

\* The pieces of the inputs of the step-by-step runs.
StepPieces ==
    { <<" ">>, <<"\t", "\n">>, <<"a">>,
      <<"<", "h", "t", "t", "p", "s", ":", "/", "/", "x">>, <<"|", "a">>, <<">">>,
      <<"<", "h", "t", "t", "p", ":", "/", "/", "y", "|", "a", " ", "a", ">">>,
      <<"*">>, <<"*", "b", "*">>, <<"_">>, <<Backtick>>, <<"~">> }

\* The number of entries of outs when the function has returned.
Returned == Len(Pipeline) + 1

StepInit ==
    /\ ServiceIdle
    /\ raw \in StringsOver(StepPieces, MaxStepFrags) \cup {None}
    /\ outs = <<>>

\* if not message: return ""
FormatEmpty ==
    /\ Falsy(raw)
    /\ outs = <<>>
    /\ outs' = << <<>> >>
    /\ UNCHANGED <<raw, serviceVars>>

\* message = re.sub(...), one statement at a time
FormatSub ==
    /\ ~Falsy(raw)
    /\ Len(outs) < Len(Pipeline)
    /\ outs' = Append(outs, Sub(Pipeline[Len(outs) + 1],
                                IF outs = <<>> THEN raw ELSE outs[Len(outs)]))
    /\ UNCHANGED <<raw, serviceVars>>

\* the .strip() of the last statement, and the return
FormatStrip ==
    /\ Len(outs) = Len(Pipeline)
    /\ outs' = Append(outs, Strip(outs[Len(outs)]))
    /\ UNCHANGED <<raw, serviceVars>>

StepNext ==
    \/ FormatEmpty
    \/ FormatSub
    \/ FormatStrip

SpecSteps == StepInit /\ [][StepNext]_vars

-----------------------------------------------------------------------------
(* The Flask application: Config, create_app and the /health route.         *)
(* A configuration object is the set of the attribute names it has; the     *)
(* environment is the set of the required variables that have a non-empty   *)
(* value, and whether FLASK_PORT reads as an integer.                       *)

\* required_vars, in the order of the dictionary, with their messages.
RequiredVars == <<"SLACK_BOT_TOKEN", "SLACK_SIGNING_SECRET", "OPENAI_API_KEY">>
RequiredMsgs == <<"Slack bot token is required",
                  "Slack signing secret is required",
                  "OpenAI API key is required">>

\* var_name.lower()
Lower(name) ==
    CASE name = "SLACK_BOT_TOKEN" -> "slack_bot_token"
      [] name = "SLACK_SIGNING_SECRET" -> "slack_signing_secret"
      [] name = "OPENAI_API_KEY" -> "openai_api_key"

Environments ==
    [set : SUBSET {RequiredVars[k] : k \in 1..Len(RequiredVars)},
     port_is_int : BOOLEAN]

\* Config._load_required_vars: the first variable without a value raises
\* ValueError; otherwise every variable becomes an attribute.
_load_required_vars(env) ==
    LET missing == {k \in 1..Len(RequiredVars) : RequiredVars[k] \notin env.set}
    IN  IF missing # {}
        THEN LET k == CHOOSE j \in missing : \A i \in missing : j <= i
             IN  Raise(Exc("ValueError",
                           <<"Missing required environment variable: ",
                             RequiredVars[k], ". ", RequiredMsgs[k]>>))
        ELSE Return({Lower(RequiredVars[k]) : k \in 1..Len(RequiredVars)})

\* Config._load_optional_vars: int() of a FLASK_PORT that is no integer
\* raises ValueError after openai_model and flask_env are set.
_load_optional_vars(env) ==
    IF env.port_is_int
    THEN Return({"openai_model", "flask_env", "flask_port", "log_level"})
    ELSE Raise(Exc("ValueError", <<"invalid literal for int() with base 10">>))

\* Config(): the required variables, then the optional ones.
Config(env) ==
    LET required == _load_required_vars(env)
        optional == _load_optional_vars(env)
    IN  IF required.kind = "raise" THEN required
        ELSE IF optional.kind = "raise" THEN optional
        ELSE Return(required.value \cup optional.value)

\* The configuration objects a caller passes as config_override: objects
\* with some of the attributes create_app and health_check read (a Mock with
\* a spec), or none.
NoOverride == {"<None>"}
Overrides == SUBSET {"flask_env", "slack_bot_token", "openai_api_key"}

\* config.flask_env
GetAttr(config, name) ==
    IF name \in config
    THEN Return(<<name>>)
    ELSE Raise(Exc("AttributeError", <<"Mock object has no attribute '", name, "'">>))

\* The application with the routes of register_routes over config.
ConfiguredApp(config) == [routes |-> "routes", config |-> config, error |-> None]

\* The application with the routes of register_error_routes, str(e) kept
\* under CONFIGURATION_ERROR.
ErrorApp(e) == [routes |-> "error_routes", config |-> {}, error |-> e.msg]

\* A variant of create_app without the except clause: the exception of the
\* configuration reaches the caller.
create_app_uncaught(config_override, env) ==
    LET config == IF config_override # NoOverride
                  THEN Return(config_override)
                  ELSE Config(env)
    IN  IF config.kind = "raise" THEN config
        ELSE IF GetAttr(config.value, "flask_env").kind = "raise"
        THEN GetAttr(config.value, "flask_env")
        ELSE Return(ConfiguredApp(config.value))

\* create_app(config_override): the outcome of the call. Whatever the try
\* block raises is caught and the application gets the error routes.
create_app(config_override, env) ==
    LET config == IF config_override # NoOverride
                  THEN Return(config_override)
                  ELSE Config(env)
    IN  IF config.kind = "raise" THEN Return(ErrorApp(config.exc))
        ELSE IF GetAttr(config.value, "flask_env").kind = "raise"
        THEN Return(ErrorApp(GetAttr(config.value, "flask_env").exc))
        ELSE Return(ConfiguredApp(config.value))

\* jsonify(...), status: the response of a health route.
Response(code, status, message, error) ==
    [status_code |-> code, status |-> status, message |-> message, error |-> error]

\* A variant of health_check that is content with one of the credentials.
health_check_either(config) ==
    IF "slack_bot_token" \in config \/ "openai_api_key" \in config
    THEN Response(200, "healthy", "Slack chatbot is running", None)
    ELSE Response(500, "unhealthy", "Configuration incomplete",
                  <<"Missing required configuration">>)

\* health_check of register_routes. hasattr of a plain attribute does not
\* raise, so the except clause is not entered for these configurations.
health_check(config) ==
    IF "slack_bot_token" \in config /\ "openai_api_key" \in config
    THEN Response(200, "healthy", "Slack chatbot is running", None)
    ELSE Response(500, "unhealthy", "Configuration incomplete",
                  <<"Missing required configuration">>)

\* health_check_error of register_error_routes.
health_check_error(a) ==
    Response(500, "unhealthy", "Configuration failed", a.error)

\* GET /health on application a: the view registered for the route.
GetHealth(a) ==
    IF a.routes = "routes" THEN health_check(a.config) ELSE health_check_error(a)

\* app = create_app(config_override) in environment env.
CreateApp ==
    /\ phase = "idle"
    /\ \E config_override \in Overrides \cup {NoOverride}, env \in Environments :
        LET o == create_app(config_override, env)
        IN  /\ op' = "create_app"
            /\ args' = <<config_override, env>>
            /\ outcome' = o
            /\ app' = IF o.kind = "return" THEN o.value ELSE app
    /\ phase' = "done"
    /\ UNCHANGED <<openai_svc, slack_svc, sent, reply, client, raw, outs, calls, frames>>

\* client.get('/health') on the application the caller holds.
Health ==
    /\ phase = "idle"
    /\ app # NoApp
    /\ op' = "health"
    /\ args' = <<>>
    /\ outcome' = Return(GetHealth(app))
    /\ phase' = "done"
    /\ UNCHANGED <<openai_svc, slack_svc, sent, reply, client, raw, outs, app, calls, frames>>

WebNext ==
    \/ CreateApp
    \/ Health
    \/ Finish

SpecWeb == Init /\ [][WebNext]_vars

-----------------------------------------------------------------------------
(* Two threads calling one constructed SlackService and one constructed     *)
(* OpenAIService.  A handler runs in an invocation of its own: its          *)
(* parameters and what it builds from them (message_params,                 *)
(* formatted_message) are local variables of that invocation; of the        *)
(* instance it only reads self.client and self.model.  The threads          *)
(* interleave between building the request, the upstream call, its answer   *)
(* and the return.                                                          *)

PairChannels == {<<>>, <<"C", "1">>, <<" ", "C", "2">>}
PairTexts == {<<"h", "i">>, <<"y", "o">>}
PairThreadRefs == {None, <<"1", ".", "2">>}
PairMessages == {<<" ">>, <<"h", "i">>, <<"*", "y", "o", "*">>}

PairPostReplies ==
    {Answer(SlackResponse(TRUE, None, None, None)),
     Answer(SlackResponse(FALSE, <<"some_error">>, None, None)),
     Failure(SlackApiError(Detail, SlackResponse(FALSE, <<"channel_not_found">>, None, None)))}

PairCompletionReplies ==
    {Completion(<< <<"h", "i">> >>),
     Completion(<<>>),
     CompletionFailure(Exc("openai.RateLimitError", Detail))}

\* The local variables of an invocation: its parameters and the request it
\* has built.
Frame(a, requests) == [args |-> a, requests |-> requests]

\* A variant of FrameOf in which the handlers keep their variables on the
\* instance: all invocations share one set.
FrameOf_instance(t) == 1

\* The local variables a handler run by thread t works on: those of its own
\* invocation.
FrameOf(t) == t

\* The instances of a concurrent run, as their constructors leave them.
PairInit ==
    /\ op = "idle"
    /\ phase = "idle"
    /\ args = <<>>
    /\ sent = <<>>
    /\ reply = NoReply
    /\ outcome = NoOutcome
    /\ client = "none"
    /\ app = NoApp
    /\ raw = <<>>
    /\ outs = <<>>
    /\ calls = NoCalls
    /\ frames = NoFrames
    /\ slack_svc = SlackInstance(<<"xoxb-", "1">>,
                                 SlackResponse(TRUE, None, <<"UBOT">>, <<"T1">>))
    /\ openai_svc \in {[ok |-> TRUE, model |-> m] : m \in Models}

pairFrame == <<openai_svc, slack_svc, op, phase, args, sent, reply, outcome, client,
               raw, outs, app>>

\* Thread t enters handler name with arguments a and runs as far as r: to
\* an early raise or to the request it has built.
Enter(t, name, a, r) ==
    /\ calls[t].phase = "idle"
    /\ calls' = [calls EXCEPT ![t] =
                    [op |-> name,
                     phase |-> IF r.outcome.kind = "none" THEN "built" ELSE "done",
                     args |-> a, sent |-> <<>>, reply |-> NoReply,
                     outcome |-> r.outcome]]
    /\ frames' = [frames EXCEPT ![FrameOf(t)] = Frame(a, r.sent)]
    /\ UNCHANGED pairFrame

PairPostMessage ==
    /\ slack_svc.ok
    /\ \E t \in Threads :
        \E channel \in PairChannels, text \in PairTexts, thread_ts \in PairThreadRefs :
            Enter(t, "post_message", <<channel, text, thread_ts>>,
                  post_message(channel, text, thread_ts))

PairGetChatCompletion ==
    /\ openai_svc.ok
    /\ \E t \in Threads :
        \E message \in PairMessages :
            Enter(t, "get_chat_completion", <<message>>,
                  get_chat_completion(openai_svc, message))

\* self.client.chat_postMessage(**message_params) or
\* self.client.chat.completions.create(...): the request goes out.
PairSend ==
    \E t \in Threads :
        /\ calls[t].phase = "built"
        /\ calls' = [calls EXCEPT ![t].phase = "awaiting",
                                  ![t].sent = frames[FrameOf(t)].requests]
        /\ UNCHANGED <<frames, pairFrame>>

\* The upstream answers the request of thread t and its handler runs on.
PairAnswered(t, name, u, o) ==
    /\ calls[t].op = name
    /\ calls[t].phase = "awaiting"
    /\ calls' = [calls EXCEPT ![t].phase = "done", ![t].reply = u, ![t].outcome = o]
    /\ UNCHANGED <<frames, pairFrame>>

PairPostReplied ==
    /\ slack_svc.ok
    /\ \E t \in Threads :
        \E u \in PairPostReplies :
            PairAnswered(t, "post_message", u,
                         post_message_reply(frames[FrameOf(t)].args[1], u))

PairCompletionReplied ==
    /\ openai_svc.ok
    /\ \E t \in Threads :
        \E u \in PairCompletionReplies :
            PairAnswered(t, "get_chat_completion", u, get_chat_completion_reply(u))

\* The handler of thread t returns or raises to its caller; its invocation
\* and the local variables end.
PairReturn ==
    \E t \in Threads :
        /\ calls[t].phase = "done"
        /\ calls' = [calls EXCEPT ![t] = NoCall]
        /\ frames' = [frames EXCEPT ![FrameOf(t)] = Frame(<<>>, <<>>)]
        /\ UNCHANGED pairFrame

PairNext ==
    \/ PairPostMessage
    \/ PairGetChatCompletion
    \/ PairSend
    \/ PairPostReplied
    \/ PairCompletionReplied
    \/ PairReturn

SpecPair == PairInit /\ [][PairNext]_vars

-----------------------------------------------------------------------------
(* The spec's vocabulary, read off the state.                               *)

\* s is None, empty, or whitespace only.
IsBlank(s) == s = None \/ \A k \in 1..Len(s) : s[k] \in Whitespace

\* A call of operation name has ended / has ended after an upstream answer.
Ended(name) == op = name /\ phase = "done"
EndedAfterReply(name) == Ended(name) /\ reply.kind # "none"

Failed == outcome.kind = "raise"
FailedWith(type, msg) == outcome = Raise(Exc(type, msg))

\* The local error kind of a get_chat_completion failure.
CompletionErrorKind(e) ==
    IF e.type = "ValueError" THEN "InvalidArgument"
    ELSE IF e.type # "RuntimeError" THEN "raw"
    ELSE CASE Head(e.msg) = "OpenAI API returned empty response" -> "EmptyUpstreamResponse"
           [] Head(e.msg) = "OpenAI API authentication failed" -> "UpstreamAuthFailed"
           [] Head(e.msg) = "OpenAI API rate limit exceeded - please try again later"
                -> "UpstreamRateLimited"
           [] Head(e.msg) = "OpenAI API error: " -> "UpstreamAPIError"
           [] Head(e.msg) = "Failed to get OpenAI response: " -> "UpstreamUnknownError"
           [] OTHER -> "other"

\* The local error kind of a post_message failure.
PostErrorKind(e) ==
    IF e.type = "ValueError" THEN "InvalidArgument"
    ELSE IF e.type # "RuntimeError" THEN "raw"
    ELSE CASE Head(e.msg) = "Channel not found: " -> "DestinationNotFound"
           [] Head(e.msg) = "Bot is not in channel: " -> "NotAMember"
           [] Head(e.msg) = "Channel is archived: " -> "DestinationArchived"
           [] Head(e.msg) = "Message text is too long" -> "MessageTooLong"
           [] Head(e.msg) = "Rate limit exceeded - please try again later"
                -> "UpstreamRateLimited"
           [] Head(e.msg) = "Invalid authentication token" -> "InvalidCredential"
           [] Head(e.msg) = "Thread not found for the provided thread_ts"
                -> "ThreadNotFound"
           [] Head(e.msg) = "Slack API error: " -> "UpstreamAPIError"
           [] Head(e.msg) = "Slack API returned error: " -> "UpstreamRejected"
           [] Head(e.msg) = "Failed to post message to Slack: " -> "UpstreamUnknownError"
           [] OTHER -> "other"

\* A user-mention or channel-reference token starts at some index of s.
HasToken(s) ==
    \E i \in 1..Len(s) :
        \/ TokenEnd(UserMention.lit, s, i) # 0
        \/ TokenEnd(ChannelMention.lit, s, i) # 0

-----------------------------------------------------------------------------
(* C1..C10.                                                                 *)

\* C1: format_slack_message is idempotent: applied to its own output it
\* returns that output unchanged.
C1_Idempotent == Len(outs) = 2 => outs[2] = outs[1]

\* C2: when the completion request returns zero choices, get_chat_completion
\* fails with EmptyUpstreamResponse, "OpenAI API returned empty response",
\* which is not the UpstreamUnknownError kind.
C2_EmptyUpstreamResponse ==
    (EndedAfterReply("get_chat_completion")
        /\ reply.kind = "return" /\ reply.choices = <<>>)
    => /\ FailedWith("RuntimeError", <<"OpenAI API returned empty response">>)
       /\ CompletionErrorKind(outcome.exc) = "EmptyUpstreamResponse"

\* C3: when chat_postMessage returns with ok false, post_message fails
\* with UpstreamRejected carrying the upstream error code ("unknown" when
\* the response has none), not with UpstreamUnknownError.
C3_UpstreamRejected ==
    (EndedAfterReply("post_message") /\ reply.kind = "return" /\ ~reply.resp.ok)
    => /\ Failed
       /\ PostErrorKind(outcome.exc) = "UpstreamRejected"
       /\ Tail(outcome.exc.msg) =
            (IF reply.resp.error = None THEN <<"unknown">> ELSE reply.resp.error)

\* C4: the output of format_slack_message contains no user-mention and no
\* channel-reference token.
C4_NoTokenLeft == Len(outs) >= 1 => ~HasToken(outs[1])

\* C5: get_chat_completion fails before any request with "Message cannot
\* be empty or None" exactly when the message is blank, with "Message
\* cannot be empty after formatting" exactly when the message is not blank
\* and normalizes to the empty string, and otherwise issues its request.
C5_InputClassified ==
    (op = "get_chat_completion") =>
        LET message == args[1]
            early == phase = "done" /\ reply.kind = "none"
        IN  /\ IsBlank(message)
                <=> (early /\ FailedWith("ValueError",
                                         <<"Message cannot be empty or None">>))
            /\ (~IsBlank(message) /\ format_slack_message(message) = <<>>)
                <=> (early /\ FailedWith("ValueError",
                                         <<"Message cannot be empty after formatting">>))
            /\ early => sent = <<>>
            /\ ~early => Len(sent) >= 1

C5_Witness ==
    /\ Ended("get_chat_completion")
    /\ ~IsBlank(args[1])
    /\ FailedWith("ValueError", <<"Message cannot be empty after formatting">>)

\* C6: every request get_chat_completion issues has one turn, role user
\* with the normalized message as content, max_tokens 1000, temperature
\* 0.7 and the model given at construction; the content is not empty and
\* is not the raw message when normalization changes the message.
C6_RequestShape ==
    /\ (Ended("OpenAIService") /\ outcome.kind = "return")
        => openai_svc = [ok |-> TRUE, model |-> args[2]]
    /\ (op = "get_chat_completion") =>
        \A i \in 1..Len(sent) :
            /\ sent[i].api = "chat.completions.create"
            /\ DOMAIN sent[i] = {"api", "model", "messages", "max_tokens", "temperature"}
            /\ sent[i].model = openai_svc.model
            /\ sent[i].messages =
                 << [role |-> "user", content |-> format_slack_message(args[1])] >>
            /\ sent[i].max_tokens = 1000
            /\ sent[i].temperature = 7
            /\ sent[i].messages[1].content # <<>>
            /\ (format_slack_message(args[1]) # args[1])
                 => sent[i].messages[1].content # args[1]

C6_Witness ==
    /\ op = "get_chat_completion"
    /\ Len(sent) = 1
    /\ sent[1].model = <<"gpt-3.5-turbo">>
    /\ sent[1].messages[1].content # args[1]

\* C7: get_chat_completion maps an authentication failure to
\* UpstreamAuthFailed, rate limiting to UpstreamRateLimited, any other
\* upstream API error to UpstreamAPIError with its detail, and any other
\* exception to UpstreamUnknownError with its detail.
C7_FailureMapping ==
    (EndedAfterReply("get_chat_completion") /\ reply.kind = "raise") =>
        LET t == reply.exc.type
        IN  /\ Failed
            /\ outcome.exc.type = "RuntimeError"
            /\ CompletionErrorKind(outcome.exc) =
                 (IF t = "openai.AuthenticationError" THEN "UpstreamAuthFailed"
                  ELSE IF t = "openai.RateLimitError" THEN "UpstreamRateLimited"
                  ELSE IF t \in {"openai.APIError", "openai.APIConnectionError"}
                       THEN "UpstreamAPIError"
                  ELSE "UpstreamUnknownError")
            /\ t \notin {"openai.AuthenticationError", "openai.RateLimitError"}
                 => Tail(outcome.exc.msg) = reply.exc.msg

C7_Witness ==
    /\ EndedAfterReply("get_chat_completion")
    /\ reply.kind = "raise"
    /\ reply.exc.type = "openai.RateLimitError"
    /\ CompletionErrorKind(outcome.exc) = "UpstreamRateLimited"

\* The table of C8: the local error of each upstream code.
C8_Table(code) ==
    CASE code = <<"channel_not_found">> -> "DestinationNotFound"
      [] code = <<"not_in_channel">>    -> "NotAMember"
      [] code = <<"is_archived">>       -> "DestinationArchived"
      [] code = <<"msg_too_long">>      -> "MessageTooLong"
      [] code = <<"rate_limited">>      -> "UpstreamRateLimited"
      [] code = <<"invalid_auth">>      -> "InvalidCredential"
      [] code = <<"thread_not_found">>  -> "ThreadNotFound"
      [] OTHER                          -> "UpstreamAPIError"

\* C8: when chat_postMessage raises an upstream API error with a code, the
\* local error is the one the table gives for the code, and a code outside
\* the table gives UpstreamAPIError carrying the code verbatim.
C8_CodeTable ==
    (EndedAfterReply("post_message") /\ reply.kind = "raise"
        /\ reply.exc.type = "SlackApiError" /\ reply.exc.resp.error # None) =>
        LET code == reply.exc.resp.error
        IN  /\ Failed
            /\ PostErrorKind(outcome.exc) = C8_Table(code)
            /\ C8_Table(code) = "UpstreamAPIError"
                 => outcome.exc.msg = <<"Slack API error: ">> \o code

C8_Witness ==
    /\ EndedAfterReply("post_message")
    /\ reply.kind = "raise"
    /\ reply.exc.resp.error = <<"is_archived">>
    /\ PostErrorKind(outcome.exc) = "DestinationArchived"

\* C9: a get_chat_completion or post_message call that fails with an
\* InvalidArgument error has issued no upstream request; every other call
\* issues exactly one, also when the upstream fails or limits the rate.
C9_OneRequestPerCall ==
    (op \in {"get_chat_completion", "post_message"}) =>
        /\ (phase = "done" /\ Failed /\ outcome.exc.type = "ValueError")
             => Len(sent) = 0
        /\ ~(phase = "done" /\ Failed /\ outcome.exc.type = "ValueError")
             => Len(sent) = 1

C9_Witness ==
    /\ EndedAfterReply("get_chat_completion")
    /\ reply.kind = "raise"
    /\ reply.exc.type = "openai.RateLimitError"
    /\ Failed
    /\ Len(sent) = 1

\* C10: every failure of either constructor, of get_chat_completion and of
\* post_message reaches the caller as a ValueError or a RuntimeError.
C10_LocalErrorsOnly ==
    (phase = "done" /\ Failed) => outcome.exc.type \in {"ValueError", "RuntimeError"}

C10_Witness ==
    /\ EndedAfterReply("SlackService")
    /\ reply.kind = "raise"
    /\ reply.exc.type = "SlackApiError"
    /\ reply.exc.resp.error = None
    /\ FailedWith("RuntimeError", <<"Failed to initialize Slack client: ", "'error'">>)

-----------------------------------------------------------------------------
(* C11..C20.                                                                *)

\* The validation answers after which a constructor must not return: any
\* exception but a rate limit for OpenAIService, any exception and an
\* answer that is not ok for SlackService.
ValidationFailed(name, u) ==
    IF name = "OpenAIService"
    THEN u.kind = "raise" /\ u.exc.type # "openai.RateLimitError"
    ELSE u.kind = "raise" \/ ~u.resp.ok

\* The step in which the constructor name returns to its caller, its one
\* validation request answered and not failed.
ReturnsValidated(name) ==
    /\ op = name
    /\ phase = "awaiting"
    /\ Len(sent) = 1
    /\ phase' = "done"
    /\ reply'.kind # "none"
    /\ ~ValidationFailed(name, reply')
    /\ outcome'.kind = "return"

\* C11: a failed validation is fatal.  The instance the caller holds
\* changes only in the step in which a constructor returns after its
\* validation round trip succeeded, and get_chat_completion and
\* post_message run only on an instance so obtained: an object whose
\* constructor raised is never used.
C11_ValidationFatal ==
    [][ /\ (openai_svc' # openai_svc) => ReturnsValidated("OpenAIService")
        /\ (slack_svc' # slack_svc) => ReturnsValidated("SlackService")
        /\ (op' = "get_chat_completion") => openai_svc'.ok
        /\ (op' = "post_message") => slack_svc'.ok ]_vars

\* A SlackService constructor has raised after a failed validation and the
\* caller holds no instance.
C11_Witness ==
    /\ EndedAfterReply("SlackService")
    /\ reply.kind = "raise"
    /\ Failed
    /\ ~slack_svc.ok
    /\ openai_svc.ok

\* C12: when the validation request is answered with a rate-limit error
\* the OpenAIService constructor returns, and the caller holds a usable
\* instance with the model the constructor was given.
C12_RateLimitedValidation ==
    (/\ EndedAfterReply("OpenAIService")
     /\ reply.kind = "raise"
     /\ reply.exc.type = "openai.RateLimitError")
        => /\ outcome.kind = "return"
           /\ openai_svc = [ok |-> TRUE, model |-> args[2]]

C12_Witness ==
    /\ EndedAfterReply("OpenAIService")
    /\ reply.kind = "raise"
    /\ reply.exc.type = "openai.RateLimitError"
    /\ outcome.kind = "return"
    /\ openai_svc.ok
    /\ openai_svc.model = <<"gpt-3.5-turbo">>

\* The local error kind of an OpenAIService construction failure.
OpenAIInitErrorKind(e) ==
    IF e.type # "ValueError" THEN "raw"
    ELSE CASE Head(e.msg) = "OpenAI API key cannot be empty or None" -> "InvalidArgument"
           [] Head(e.msg) = "Invalid OpenAI API key" -> "InvalidCredential"
           [] Head(e.msg) = "OpenAI API key validation failed: " -> "InitializationFailed"
           [] Head(e.msg) = "Failed to initialize OpenAI client: " -> "InitializationFailed"
           [] OTHER -> "other"

\* The message m ends with the upstream's detail d.
CarriesDetail(m, d) ==
    /\ Len(m) > Len(d)
    /\ SubSeq(m, Len(m) - Len(d) + 1, Len(m)) = d

\* C13, as stated: when the validation request raises an authentication failure the
\* OpenAIService constructor fails with the InvalidCredential error
\* "Invalid OpenAI API key"; when it raises anything but that or a rate
\* limit, with an InitializationFailed error that carries the detail.
C13_ValidationMapping ==
    (/\ EndedAfterReply("OpenAIService")
     /\ reply.kind = "raise"
     /\ reply.exc.type # "openai.RateLimitError")
        => /\ Failed
           /\ IF reply.exc.type = "openai.AuthenticationError"
              THEN /\ OpenAIInitErrorKind(outcome.exc) = "InvalidCredential"
                   /\ outcome.exc.msg = <<"Invalid OpenAI API key">>
              ELSE /\ OpenAIInitErrorKind(outcome.exc) = "InitializationFailed"
                   /\ CarriesDetail(outcome.exc.msg, reply.exc.msg)

\* C13, as the code has it: the constructor puts its own prefix before the
\* error of the validation.  An authentication failure gives ValueError
\* "Failed to initialize OpenAI client: Invalid OpenAI API key"; a failure
\* that is neither that nor a rate limit gives ValueError "Failed to
\* initialize OpenAI client: OpenAI API key validation failed: " followed
\* by the upstream's detail.
C13_PrefixedMapping ==
    (/\ EndedAfterReply("OpenAIService")
     /\ reply.kind = "raise"
     /\ reply.exc.type # "openai.RateLimitError")
        => IF reply.exc.type = "openai.AuthenticationError"
           THEN FailedWith("ValueError", <<"Failed to initialize OpenAI client: ",
                                           "Invalid OpenAI API key">>)
           ELSE FailedWith("ValueError", <<"Failed to initialize OpenAI client: ",
                                           "OpenAI API key validation failed: ">>
                                         \o reply.exc.msg)

C13_Witness ==
    /\ EndedAfterReply("OpenAIService")
    /\ reply.kind = "raise"
    /\ reply.exc.type = "openai.AuthenticationError"
    /\ FailedWith("ValueError", <<"Failed to initialize OpenAI client: ",
                                  "Invalid OpenAI API key">>)
    /\ ~openai_svc.ok

\* C14: an OpenAIService constructor given an empty or absent key fails
\* with ValueError "OpenAI API key cannot be empty or None", having asked
\* for no client object and issued no request.
C14_EmptyKey ==
    (op = "OpenAIService" /\ Falsy(args[1]))
        => /\ phase = "done"
           /\ FailedWith("ValueError", <<"OpenAI API key cannot be empty or None">>)
           /\ client = "none"
           /\ sent = <<>>
           /\ reply = NoReply

C14_Witness ==
    /\ Ended("OpenAIService")
    /\ args[1] = <<>>
    /\ FailedWith("ValueError", <<"OpenAI API key cannot be empty or None">>)
    /\ client = "none"
    /\ sent = <<>>

\* The arguments of the constructor in progress pass its local checks.
PassesLocalChecks ==
    \/ op = "OpenAIService" /\ ~Falsy(args[1])
    \/ op = "SlackService" /\ ~Falsy(args[1]) /\ Head(args[1]) = "xoxb-"

\* The one validation request of the constructor in progress.
OneValidationRequest ==
    IF op = "OpenAIService"
    THEN sent = << [api |-> "chat.completions.create",
                    model |-> args[2],
                    messages |-> << [role |-> "user",
                                     content |-> <<"t", "e", "s", "t">>] >>,
                    max_tokens |-> 1] >>
    ELSE sent = << [api |-> "auth.test"] >>

\* C15, as stated: a constructor whose credential passes the local checks
\* has issued exactly one validation request when it returns or fails:
\* OpenAIService a completion request with the configured model, one user
\* turn "test" and max_tokens 1, SlackService one auth.test.
C15_OneValidation ==
    (PassesLocalChecks /\ phase = "done") => OneValidationRequest

\* C15, as the code has it: the same, for a constructor whose upstream
\* client object was created; the request is out from the moment the
\* constructor blocks and no second one follows.  When creating the client
\* object raises, the constructor fails without any request.
C15_OneValidationOnceConnected ==
    PassesLocalChecks =>
        /\ client = "created" => OneValidationRequest
        /\ client = "raised" => (phase = "done" /\ Failed /\ sent = <<>>)
        /\ client # "none"

C15_Witness ==
    /\ EndedAfterReply("OpenAIService")
    /\ args[2] = <<"gpt-3.5-turbo">>
    /\ reply.kind = "raise"
    /\ client = "created"
    /\ Len(sent) = 1
    /\ sent[1].model = <<"gpt-3.5-turbo">>
    /\ sent[1].max_tokens = 1

\* C16: a SlackService constructor given an empty or absent token, or one
\* that does not start with "xoxb-", fails with a ValueError, having asked
\* for no client object and issued no request.
C16_TokenFormat ==
    (op = "SlackService" /\ (Falsy(args[1]) \/ Head(args[1]) # "xoxb-"))
        => /\ phase = "done"
           /\ FailedWith("ValueError",
                IF Falsy(args[1])
                THEN <<"Slack bot token cannot be empty or None">>
                ELSE <<"Invalid Slack bot token format - must start with 'xoxb-'">>)
           /\ client = "none"
           /\ sent = <<>>
           /\ reply = NoReply

C16_Witness ==
    /\ Ended("SlackService")
    /\ args[1] = <<"xoxp-", "1">>
    /\ FailedWith("ValueError",
                  <<"Invalid Slack bot token format - must start with 'xoxb-'">>)
    /\ client = "none"
    /\ sent = <<>>

\* The local error kind of a SlackService construction failure after the
\* validation call: the constructor's prefix, then the error of the
\* validation.
SlackInitErrorKind(e) ==
    IF e.type # "RuntimeError" \/ Head(e.msg) # "Failed to initialize Slack client: "
    THEN "other"
    ELSE CASE e.msg[2] = "Invalid Slack bot token" -> "InvalidCredential"
           [] e.msg[2] = "Slack account is inactive" -> "AccountInactive"
           [] OTHER -> "InitializationFailed"

\* C17: a SlackService constructor whose validation fails raises: with an
\* InitializationFailed error when the answer is not ok; with
\* InvalidCredential on the code invalid_auth, AccountInactive on
\* account_inactive, and InitializationFailed carrying the code on any other
\* code, rate_limited included; with InitializationFailed carrying the
\* detail on any other exception.
C17_ValidationMapping ==
    (EndedAfterReply("SlackService") /\ (reply.kind = "raise" \/ ~reply.resp.ok))
        => /\ Failed
           /\ LET e == outcome.exc
                   code == reply.exc.resp.error
              IN  IF reply.kind = "return"
                  THEN /\ SlackInitErrorKind(e) = "InitializationFailed"
                       /\ CarriesDetail(e.msg, <<"Slack auth test failed">>)
                  ELSE IF reply.exc.type # "SlackApiError"
                  THEN /\ SlackInitErrorKind(e) = "InitializationFailed"
                       /\ CarriesDetail(e.msg, reply.exc.msg)
                  ELSE IF code = <<"invalid_auth">>
                  THEN SlackInitErrorKind(e) = "InvalidCredential"
                  ELSE IF code = <<"account_inactive">>
                  THEN SlackInitErrorKind(e) = "AccountInactive"
                  ELSE /\ SlackInitErrorKind(e) = "InitializationFailed"
                       /\ code # None => CarriesDetail(e.msg, code)

C17_Witness ==
    /\ EndedAfterReply("SlackService")
    /\ reply.kind = "raise"
    /\ reply.exc.type = "SlackApiError"
    /\ reply.exc.resp.error = <<"rate_limited">>
    /\ FailedWith("RuntimeError", <<"Failed to initialize Slack client: ",
                                    "Slack API error during validation: ",
                                    "rate_limited">>)
    /\ ~slack_svc.ok

\* C18: when a SlackService constructor returns, the instance holds the
\* token it was given and the user_id and team_id of the auth.test answer;
\* the instance changes in no other step, and no step of a post_message or
\* get_chat_completion call, failed or not, changes either instance.
C18_IdentityCaptured ==
    [][ /\ (slack_svc' # slack_svc)
            => (op' = "SlackService" /\ phase' = "done" /\ outcome'.kind = "return")
        /\ (op' = "SlackService" /\ phase' = "done" /\ outcome'.kind = "return")
            => slack_svc' = [ok |-> TRUE,
                             bot_token |-> args'[1],
                             bot_user_id |-> reply'.resp.user_id,
                             team_id |-> reply'.resp.team_id]
        /\ (\/ op \in {"post_message", "get_chat_completion"}
            \/ op' \in {"post_message", "get_chat_completion"})
            => /\ slack_svc' = slack_svc
               /\ openai_svc' = openai_svc ]_vars

\* A post_message call has failed on an instance that still holds what its
\* construction captured.
C18_Witness ==
    /\ EndedAfterReply("post_message")
    /\ Failed
    /\ slack_svc = [ok |-> TRUE, bot_token |-> <<"xoxb-", "1">>,
                    bot_user_id |-> <<"UBOT">>, team_id |-> <<"T1">>]
    /\ openai_svc.ok

\* C19: post_message with a blank channel fails with ValueError "Channel
\* cannot be empty or None", also when the text is blank too; with a
\* channel that is not blank and a blank text it fails with ValueError
\* "Message text cannot be empty or None".
C19_BlankArguments ==
    (op = "post_message" /\ (IsBlank(args[1]) \/ IsBlank(args[2])))
        => /\ phase = "done"
           /\ FailedWith("ValueError",
                IF IsBlank(args[1])
                THEN <<"Channel cannot be empty or None">>
                ELSE <<"Message text cannot be empty or None">>)

C19_Witness ==
    /\ Ended("post_message")
    /\ args[1] = <<" ">>
    /\ args[2] = None
    /\ FailedWith("ValueError", <<"Channel cannot be empty or None">>)

\* t is s without its leading and trailing whitespace.
IsTrimOf(t, s) ==
    /\ t # <<>> => (t[1] \notin Whitespace /\ t[Len(t)] \notin Whitespace)
    /\ \E i \in 1..(Len(s) + 1) :
          /\ i + Len(t) - 1 <= Len(s)
          /\ t = SubSeq(s, i, i + Len(t) - 1)
          /\ \A k \in 1..Len(s) :
                (k < i \/ k > i + Len(t) - 1) => s[k] \in Whitespace

\* C20: the request of a post_message call carries the channel and the text
\* trimmed, and has a thread_ts entry exactly when the thread reference
\* given is neither None nor empty; the entry is the reference as given.
C20_PostRequest ==
    (op = "post_message" /\ sent # <<>>)
        => LET r == sent[1]
           IN  /\ r.api = "chat.postMessage"
               /\ IsTrimOf(r.channel, args[1])
               /\ IsTrimOf(r.text, args[2])
               /\ ("thread_ts" \in DOMAIN r) <=> (args[3] \notin {None, <<>>})
               /\ ("thread_ts" \in DOMAIN r) => r.thread_ts = args[3]

C20_Witness ==
    /\ op = "post_message"
    /\ phase = "awaiting"
    /\ args = << <<" ", "C", "1", " ">>, <<" ", "h", "i", " ">>, <<>> >>
    /\ Len(sent) = 1
    /\ sent[1].channel = <<"C", "1">>
    /\ sent[1].text = <<"h", "i">>
    /\ "thread_ts" \notin DOMAIN sent[1]

-----------------------------------------------------------------------------
(* C21..C30.                                                                *)

\* C21: a post_message call that got an answer from the upstream returns
\* True when the message was posted and returns False when it was not.
C21_ReturnsBool ==
    EndedAfterReply("post_message")
        => /\ outcome.kind = "return"
           /\ outcome.value = IF reply.kind = "return" /\ reply.resp.ok
                               THEN <<"True">>
                               ELSE <<"False">>

\* C22: when the completion request is answered with at least one choice
\* and the first choice has a text, get_chat_completion returns that text
\* without its leading and trailing whitespace, whatever choices follow.
C22_FirstChoiceTrimmed ==
    (/\ EndedAfterReply("get_chat_completion")
     /\ reply.kind = "return"
     /\ Len(reply.choices) >= 1
     /\ reply.choices[1] # None)
        => /\ outcome.kind = "return"
           /\ IsTrimOf(outcome.value, reply.choices[1])

C22_Witness ==
    /\ EndedAfterReply("get_chat_completion")
    /\ reply.kind = "return"
    /\ Len(reply.choices) = 2
    /\ reply.choices[1] = <<" ", "h", "i", "\n">>
    /\ outcome = Return(<<"h", "i">>)

\* The function has returned: its value is the last entry of outs.
HasReturned == IF Falsy(raw) THEN Len(outs) = 1 ELSE Len(outs) = Returned

\* s has no whitespace at either end, and its whitespace is single spaces.
SingleSpaced(s) ==
    /\ s # <<>> => (s[1] \notin Whitespace /\ s[Len(s)] \notin Whitespace)
    /\ \A k \in 1..Len(s) : s[k] \in Whitespace => s[k] = " "
    /\ \A k \in 1..(Len(s) - 1) : ~(s[k] \in Whitespace /\ s[k + 1] \in Whitespace)

\* C23: what format_slack_message returns has no whitespace at its ends,
\* no tab or newline, and no two whitespace characters in a row.
C23_SingleSpaced ==
    HasReturned
        => /\ outs[Len(outs)] = format_slack_message(raw)
           /\ SingleSpaced(outs[Len(outs)])

\* An input with a tab and a newline between two words has been normalized.
C23_Witness ==
    /\ raw = <<"a", "\t", "\n", "a">>
    /\ Len(outs) = Returned
    /\ outs[Returned] = <<"a", " ", "a">>

\* s[i] is a < followed by http:// or https://; the index after the scheme.
AfterScheme(s, i) ==
    {p \in {i + 8, i + 9} :
        /\ p <= Len(s)
        /\ s[i] = "<"
        /\ SubSeq(s, i + 1, p - 1) \in {<<"h", "t", "t", "p", ":", "/", "/">>,
                                       <<"h", "t", "t", "p", "s", ":", "/", "/">>}}

\* The link tokens <url|label> that start at s[i]: the pairs of the index
\* of the | and the index of the closing >.  The url is not empty and has
\* no | and no >; the label is not empty and has no >.
LabelledLinkAt(s, i) ==
    {be \in {b \in i..Len(s) : s[b] = "|"} \X {e \in i..Len(s) : s[e] = ">"} :
        /\ be[1] + 1 < be[2]
        /\ \A k \in (be[1] + 1)..(be[2] - 1) : s[k] # ">"
        /\ \E p \in AfterScheme(s, i) :
              /\ p < be[1]
              /\ \A k \in p..(be[1] - 1) : s[k] \notin {"|", ">"}}

\* The link tokens <url> that start at s[i]: the index of the closing >.
\* The url is not empty and has no >.
BareLinkAt(s, i) ==
    {e \in i..Len(s) :
        /\ s[e] = ">"
        /\ \E p \in AfterScheme(s, i) :
              /\ p < e
              /\ \A k \in p..(e - 1) : s[k] # ">"}

\* s from index i on, each link token <url|label> replaced by its label.
RECURSIVE LabelsForLinks(_, _)
LabelsForLinks(s, i) ==
    IF i > Len(s) THEN <<>>
    ELSE IF LabelledLinkAt(s, i) = {} THEN <<s[i]>> \o LabelsForLinks(s, i + 1)
    ELSE LET be == CHOOSE x \in LabelledLinkAt(s, i) : TRUE
         IN  SubSeq(s, be[1] + 1, be[2] - 1) \o LabelsForLinks(s, be[2] + 1)

\* s from index i on, each link token <url> replaced by its url.
RECURSIVE UrlsForLinks(_, _)
UrlsForLinks(s, i) ==
    IF i > Len(s) THEN <<>>
    ELSE IF BareLinkAt(s, i) = {} THEN <<s[i]>> \o UrlsForLinks(s, i + 1)
    ELSE LET e == CHOOSE x \in BareLinkAt(s, i) : TRUE
         IN  SubSeq(s, i + 1, e - 1) \o UrlsForLinks(s, e + 1)

\* s has none of the characters of C.
FreeOf(s, C) == \A k \in 1..Len(s) : s[k] \notin C

Markers == <<"*", "_", Backtick, "~">>

\* The indices of marker m in t.
MarkersOf(m, t) == {k \in 1..Len(t) : t[k] = m}

\* The markers m of t paired from left to right, the first with the second,
\* the third with the fourth and so on: all of them, but for the last one
\* when their number is odd.
Paired(m, t) ==
    LET M == MarkersOf(m, t)
    IN  {k \in M : Cardinality({j \in M : j <= k}) <= 2 * (Cardinality(M) \div 2)}

\* No two markers m of t are next to each other: every pair has an inner
\* text that is not empty.
NoAdjacent(m, t) == \A k \in 1..(Len(t) - 1) : ~(t[k] = m /\ t[k + 1] = m)

\* The inner text of every pair of markers m of t has no marker of the
\* other three characters.
PlainInside(m, t) ==
    \A i \in Paired(m, t) :
        (Cardinality({j \in MarkersOf(m, t) : j <= i}) % 2 = 1)
            => \A k \in (i + 1)..Len(t) :
                  (\A j \in (i + 1)..k : t[j] # m)
                      => \A n \in 1..4 : t[k] # Markers[n]

\* t from index i on, without the characters at the indices of X.
RECURSIVE WithoutFrom(_, _, _)
WithoutFrom(t, X, i) ==
    IF i > Len(t) THEN <<>>
    ELSE (IF i \in X THEN <<>> ELSE <<t[i]>>) \o WithoutFrom(t, X, i + 1)

Without(t, X) == WithoutFrom(t, X, 1)

BothConfigured(a) == {"slack_bot_token", "openai_api_key"} \subseteq a.config

\* A health request on the application has been answered.
HealthAnswered == Ended("health") /\ outcome.kind = "return"

\* C26: on an application whose configuration was loaded (it serves
\* health_check), a health request is answered Healthy with HTTP 200 exactly
\* when the configuration exposes both the messaging and the completion
\* credential, and otherwise Unhealthy with HTTP 500 and the message
\* "Configuration incomplete".
C26_HealthyIffConfigured ==
    (HealthAnswered /\ app.routes = "routes") =>
        LET r == outcome.value
        IN  /\ (r.status = "healthy" /\ r.status_code = 200) <=> BothConfigured(app)
            /\ ~BothConfigured(app) =>
                /\ r.status = "unhealthy"
                /\ r.status_code = 500
                /\ r.message = "Configuration incomplete"

\* A health request on an application whose configuration has the messaging
\* credential only is answered Unhealthy, 500, "Configuration incomplete".
C26_Witness ==
    /\ HealthAnswered
    /\ app.routes = "routes"
    /\ "slack_bot_token" \in app.config
    /\ "openai_api_key" \notin app.config
    /\ outcome.value.status_code = 500
    /\ outcome.value.message = "Configuration incomplete"

\* The outcome of the configuration construction of the create_app call in
\* progress: Config() when no override was passed.
Construction ==
    IF args[1] # NoOverride THEN Return(args[1]) ELSE Config(args[2])

\* C27: create_app always returns an application; when the construction of
\* the configuration raised, the application keeps the error string, and
\* every health request on such an application is answered with a
\* structured Unhealthy status (HTTP 500) whose error field is that string.
C27_NeverThrows ==
    /\ Ended("create_app") =>
        /\ outcome.kind = "return"
        /\ outcome.value = app
        /\ app.routes \in {"routes", "error_routes"}
        /\ Construction.kind = "raise" =>
            /\ app.routes = "error_routes"
            /\ app.error = Construction.exc.msg
    /\ Ended("health") =>
        /\ outcome.kind = "return"
        /\ outcome.value.status \in {"healthy", "unhealthy"}
        /\ app.routes = "error_routes" =>
            /\ outcome.value.status = "unhealthy"
            /\ outcome.value.status_code = 500
            /\ outcome.value.error = app.error

\* A health request on the application created while SLACK_SIGNING_SECRET
\* was missing is answered with the ValueError's string.
C27_Witness ==
    /\ HealthAnswered
    /\ app.routes = "error_routes"
    /\ outcome.value.status = "unhealthy"
    /\ outcome.value.error = <<"Missing required environment variable: ",
                               "SLACK_SIGNING_SECRET", ". ",
                               "Slack signing secret is required">>

\* What the call c does when no other call runs: up to its request, and
\* after the answer in c.reply.
Alone(c) ==
    IF c.op = "post_message"
    THEN post_message(c.args[1], c.args[2], c.args[3])
    ELSE get_chat_completion(openai_svc, c.args[1])

AloneReplied(c) ==
    IF c.op = "post_message"
    THEN post_message_reply(c.args[1], c.reply)
    ELSE get_chat_completion_reply(c.reply)

\* The call c has sent what its own arguments determine and has got the
\* outcome its own arguments and its own upstream answer determine.
OwnRequestAndOutcome(c) ==
    /\ c.phase \in {"awaiting", "done"} => c.sent = Alone(c).sent
    /\ (c.phase = "done" /\ c.reply.kind = "none") => c.outcome = Alone(c).outcome
    /\ (c.phase = "done" /\ c.reply.kind # "none") => c.outcome = AloneReplied(c)

\* C28: in every interleaving of two calls (post_message or
\* get_chat_completion) on the same instances, each call sends exactly the
\* request of its own arguments and gets the outcome of its own upstream
\* answer, and no step changes the constructed instances.
C28_Independent ==
    /\ [](\A t \in Threads : OwnRequestAndOutcome(calls[t]))
    /\ [][slack_svc' = slack_svc /\ openai_svc' = openai_svc]_vars

\* Two post_message calls with different arguments in flight at once: one
\* has failed for its own channel, the other still waits for its answer.
C28_Witness ==
    /\ calls[1].op = "post_message"
    /\ calls[2].op = "post_message"
    /\ calls[1].phase = "awaiting"
    /\ calls[1].sent[1].channel = <<"C", "1">>
    /\ calls[2].phase = "done"
    /\ calls[2].args[1] = <<" ", "C", "2">>
    /\ calls[2].sent[1].channel = <<"C", "2">>
    /\ calls[2].outcome.kind = "raise"
    /\ calls[2].reply.kind # "none"

\* C29: when post_message fails with DestinationNotFound, NotAMember or
\* DestinationArchived, the destination the error names is exactly the
\* trimmed destination that went upstream in the request.
C29_NamesSentDestination ==
    (/\ EndedAfterReply("post_message")
     /\ Failed
     /\ PostErrorKind(outcome.exc) \in
            {"DestinationNotFound", "NotAMember", "DestinationArchived"})
        => Tail(outcome.exc.msg) = sent[1].channel

\* C30: a value get_chat_completion returns is a non-empty, non-blank
\* string, so post_message with that value as its text does not fail with
\* the ValueError for an empty text.
C30_ReplyPostable ==
    (EndedAfterReply("get_chat_completion") /\ outcome.kind = "return")
        => /\ ~IsBlank(outcome.value)
           /\ post_message(<<"C", "1">>, outcome.value, None).outcome
                # Raise(Exc("ValueError", <<"Message text cannot be empty or None">>))

====
